---- MODULE Spec2Model ----
(***************************************************************************)
(* Model of workers/whisper/transcribe.py: the capture callback that      *)
(* pushes raw audio chunks into data_queue, and the loop of main() that    *)
(* drains the queue, decides the phrase boundary from the time of the      *)
(* previous drain, calls the recognizer, edits the transcription lines,    *)
(* grows the command accumulator `transcript` and scans it with ptn.       *)
(* Text is a sequence of one-character strings, so that strip(), lower(),  *)
(* re.sub and the pattern search are computed character by character.      *)
(***************************************************************************)
EXTENDS Integers, Sequences, FiniteSets, TLC

\* ------------------------------------------------------------------ bounds
\* Largest value the clock reading dt.datetime.utcnow() takes, in seconds.
MaxTime == 10
\* Number of chunks the capture thread pushes in a run.
MaxChunks == 4
\* Number of loop iterations that find the queue non-empty.
MaxIter == 4
\* The same two bounds in the runs that draw the recognizer's text from all of
\* Results.
MaxChunksText == 3
MaxIterText == 3

\* ------------------------------------------------------- program constants
\* --phrase_timeout default, in seconds.
phrase_timeout == 4

\* phrase_time = None
NoTime == -1
\* no transcript file written yet
NoFile == <<"no file">>
\* the None returned by get_cmd
None == <<"N", "o", "n", "e">>

\* ---------------------------------------------------------- string helpers
Whitespace == {" ", "\t", "\n"}
Punctuation == {".", ",", ";", ":", "!", "?"}

Upper == <<"A", "B", "C", "D", "E", "F", "G", "H", "I", "J", "K", "L", "M",
           "N", "O", "P", "Q", "R", "S", "T", "U", "V", "W", "X", "Y", "Z">>
Lowercase == <<"a", "b", "c", "d", "e", "f", "g", "h", "i", "j", "k", "l", "m",
               "n", "o", "p", "q", "r", "s", "t", "u", "v", "w", "x", "y", "z">>

LowerChar(c) ==
  IF \E k \in 1..26 : Upper[k] = c
  THEN Lowercase[CHOOSE k \in 1..26 : Upper[k] = c]
  ELSE c

\* str.lower()
Lower(s) ==
  [i \in 1..Len(s) |-> LowerChar(s[i])]

\* re.sub("[.,;:!?]", " ", s)
SubPunct(s) ==
  [i \in 1..Len(s) |-> IF s[i] \in Punctuation THEN " " ELSE s[i]]

\* str.strip()
Strip(s) ==
  LET ink == {i \in 1..Len(s) : s[i] \notin Whitespace}
  IN  IF ink = {} THEN <<>>
      ELSE LET lo == CHOOSE i \in ink : \A j \in ink : i <= j
               hi == CHOOSE i \in ink : \A j \in ink : j <= i
           IN  SubSeq(s, lo, hi)

\* s[i:].startswith(w), 1-based
StartsWithAt(s, i, w) ==
  /\ i >= 1
  /\ i + Len(w) - 1 <= Len(s)
  /\ SubSeq(s, i, i + Len(w) - 1) = w

\* ------------------------------------------------------------- the pattern
\* Group 1 of ptn, [h]?an[n]?a, tried at position i: the length matched, 0 if
\* none.  Both optional letters are greedy and no shorter choice can succeed
\* where the greedy one fails, so the length is a function of the position.
WakeLenAt(s, i) ==
  LET h == IF StartsWithAt(s, i, <<"h">>) THEN 1 ELSE 0
      n == IF StartsWithAt(s, i + h + 2, <<"n">>) THEN 1 ELSE 0
  IN  IF /\ StartsWithAt(s, i + h, <<"a", "n">>)
         /\ StartsWithAt(s, i + h + 2 + n, <<"a">>)
      THEN h + 3 + n
      ELSE 0

\* Group 3 of ptn, thank(?:s| you), tried at position j.
ThankLenAt(s, j) ==
  IF StartsWithAt(s, j, <<"t", "h", "a", "n", "k", "s">>) THEN 6
  ELSE IF StartsWithAt(s, j, <<"t", "h", "a", "n", "k", " ", "y", "o", "u">>) THEN 9
  ELSE 0

\* Positions at which group 3 can start after a wake token that ends before e,
\* with group 2, (.*?), spanning e..j-1: `.` matches no line break.
ThankAfter(s, e) ==
  {j \in e..Len(s) : /\ ThankLenAt(s, j) > 0
                     /\ \A k \in e..(j - 1) : s[k] # "\n"}

\* Start positions of a whole match of ptn.
MatchStarts(s) ==
  {i \in 1..Len(s) : WakeLenAt(s, i) > 0 /\ ThankAfter(s, i + WakeLenAt(s, i)) # {}}

Min(S) == CHOOSE x \in S : \A y \in S : x <= y

\* The search with a greedy group 2, (.*): from the leftmost start to the
\* last end.
SearchGreedy(s) ==
  IF MatchStarts(s) = {} THEN [found |-> FALSE, g1 |-> <<>>, g2 |-> <<>>, g3 |-> <<>>]
  ELSE LET i == Min(MatchStarts(s))
           e == i + WakeLenAt(s, i)
           j == CHOOSE x \in ThankAfter(s, e) : \A y \in ThankAfter(s, e) : y <= x
       IN  [found |-> TRUE,
            g1 |-> SubSeq(s, i, e - 1),
            g2 |-> SubSeq(s, e, j - 1),
            g3 |-> SubSeq(s, j, j + ThankLenAt(s, j) - 1)]

\* ptn.search(s): the leftmost start, and from it the first end (group 2 is
\* lazy).  found = FALSE stands for the None of a failed search.
Search(s) ==
  IF MatchStarts(s) = {} THEN [found |-> FALSE, g1 |-> <<>>, g2 |-> <<>>, g3 |-> <<>>]
  ELSE LET i == Min(MatchStarts(s))
           e == i + WakeLenAt(s, i)
           j == Min(ThankAfter(s, e))
       IN  [found |-> TRUE,
            g1 |-> SubSeq(s, i, e - 1),
            g2 |-> SubSeq(s, e, j - 1),
            g3 |-> SubSeq(s, j, j + ThankLenAt(s, j) - 1)]

\* get_cmd without the strip of the groups.
get_cmd_unstripped(t) ==
  LET cmd == Strip(SubPunct(t))
      m == Search(cmd)
  IN  IF m.found THEN m.g2 ELSE None

\* get_cmd(transcript, ptn)
get_cmd(t) ==
  LET cmd == Strip(SubPunct(t))
      m == Search(cmd)
  IN  IF m.found THEN Strip(m.g2) ELSE None

\* ------------------------------------------------------ recognizer outputs
\* Values of result["text"] the recognizer returns in the model.
T_example == <<"h", "e", "y", " ", "h", "a", "n", "n", "a", ",", " ", "p", "l", "e", "a", "s", "e", " ", "o", "p", "e", "n", " ", "t", "h", "e", " ", "d", "o", "o", "r", ",", " ", "t", "h", "a", "n", "k", "s">>
T_payload == <<"p", "l", "e", "a", "s", "e", " ", "o", "p", "e", "n", " ", "t", "h", "e", " ", "d", "o", "o", "r">>
T_wake == <<" ", "H", "a", "n", "n", "a">>
T_open == <<"o", "p", "e", "n", ".">>
T_thank == <<"T", "h", "a", "n", "k">>
T_you == <<"y", "o", "u", "!", " ">>
T_thanks == <<"t", "h", "a", "n", "k", "s">>
T_comma == <<"t", "h", "a", "n", "k", ",", "y", "o", "u">>

T_double == <<"h", "a", "n", "a", " ", "a", " ", "t", "h", "a", "n", "k", "s", " ", "a", "n", "n", "a", " ", "b", " ", "t", "h", "a", "n", "k", "s">>

ResultsShort == {T_wake, T_thanks}
Results == {T_example, T_wake, T_open, T_thank, T_you, T_thanks, T_comma, T_double}

\* ------------------------------------------------------------------- state
VARIABLES
  pc,               \* position of main(): setup, the steps of one iteration, exit
  audio_model,      \* TRUE: load_model returned a pipeline, FALSE: it returned None
  phrase_time,      \* time of the last non-empty drain, NoTime for None
  phrase_complete,
  data_queue,       \* data_queue.queue, a sequence of chunk numbers
  audio_data,       \* the chunks joined for the recognizer in this iteration
  text,
  transcription,    \* list of lines
  transcript,       \* the command accumulator
  out,              \* lines printed with flush=True
  saved,            \* content written by save_transcripts, NoFile before
  pushed,           \* history: number of chunks pushed by record_callback
  drains,           \* history: number of non-empty drains
  last_drain,       \* history: clock reading of the latest non-empty drain
  prev_drain,       \* history: clock reading of the non-empty drain before it
  handed,           \* history: the audio of every recognizer call
  returned,         \* history: result["text"] of every recognizer call that returned
  buffered,         \* history: chunks drained since the last boundary
  commits,          \* history: <<phrase_complete, text>> of every commit
  fed,              \* history: text fed since the last emitted command
  nClear,           \* history: number of data_queue.queue.clear() calls
  nFeed             \* history: number of transcript += text + " "

vars == <<pc, audio_model, phrase_time, phrase_complete, data_queue,
          audio_data, text, transcription, transcript, out, saved, pushed,
          drains, last_drain, prev_drain, handed, returned, buffered, commits, fed,
          nClear, nFeed>>

engine == <<audio_model, phrase_time, phrase_complete, audio_data, text,
            transcription, transcript, out, saved>>
history == <<drains, last_drain, prev_drain, handed, returned, buffered, commits, fed,
             nClear, nFeed>>

READY == [tag |-> "[READY]", payload |-> <<>>]
USERSAYS(cmd) == [tag |-> "[USERSAYS]", payload |-> cmd]

Last(s) == s[Len(s)]

InLoop == pc \in {"loop", "join", "clear", "transcribe", "commit", "feed", "scan"}

Init ==
  /\ pc = "setup"
  /\ audio_model = FALSE
  /\ phrase_time = NoTime
  /\ phrase_complete = FALSE
  /\ data_queue = <<>>
  /\ audio_data = <<>>
  /\ text = <<>>
  /\ transcription = << <<>> >>
  /\ transcript = <<>>
  /\ out = <<>>
  /\ saved = NoFile
  /\ pushed = 0
  /\ drains = 0
  /\ last_drain = NoTime
  /\ prev_drain = NoTime
  /\ handed = <<>>
  /\ returned = <<>>
  /\ buffered = <<>>
  /\ commits = <<>>
  /\ fed = <<>>
  /\ nClear = 0
  /\ nFeed = 0

\* ----------------------------------------------------------------- actions
\* The setup that prints no READY line.
SetupSilent(mic, loaded) ==
  /\ pc = "setup"
  /\ pc' = IF mic = "list" THEN "returned" ELSE IF mic = "missing" THEN "crashed" ELSE "loop"
  /\ audio_model' = IF mic = "list" THEN audio_model ELSE loaded
  /\ UNCHANGED <<out, phrase_time, phrase_complete, data_queue, audio_data, text,
                 transcription, transcript, saved, pushed>>
  /\ UNCHANGED history

\* main() up to the loop: the microphone lookup, load_model, READY.
\* mic: "found", "missing" (no device name contains mic_name: `source` is
\* never bound and `with source` raises), "list" (main returns).
Setup(mic, loaded) ==
  /\ pc = "setup"
  /\ IF mic = "list" THEN
       /\ pc' = "returned"
       /\ UNCHANGED <<audio_model, out>>
     ELSE IF mic = "missing" THEN
       /\ pc' = "crashed"
       /\ audio_model' = loaded
       /\ UNCHANGED out
     ELSE
       /\ pc' = "loop"
       /\ audio_model' = loaded
       /\ out' = Append(out, READY)
  /\ UNCHANGED <<phrase_time, phrase_complete, data_queue, audio_data, text,
                 transcription, transcript, saved, pushed>>
  /\ UNCHANGED history

\* record_callback, on the capture thread started by listen_in_background.
Push(chunks) ==
  /\ InLoop
  /\ pushed < chunks
  /\ pushed' = pushed + 1
  /\ data_queue' = Append(data_queue, pushed + 1)
  /\ UNCHANGED pc
  /\ UNCHANGED engine
  /\ UNCHANGED history

\* The empty iteration that records its clock reading as the phrase time.
IdleTouches(t) ==
  /\ pc = "loop"
  /\ data_queue = <<>>
  /\ t >= 0
  /\ phrase_time' = t
  /\ UNCHANGED <<pc, data_queue, pushed, audio_model, phrase_complete, audio_data, text,
                 transcription, transcript, out, saved>>
  /\ UNCHANGED history

\* An iteration that finds the queue empty: sleep(0.25).  The clock reading
\* t is assigned to the local `now`, which nothing reads before the next
\* iteration assigns it again.
Idle(t) ==
  /\ pc = "loop"
  /\ data_queue = <<>>
  /\ t >= 0
  /\ UNCHANGED <<pc, data_queue, pushed>>
  /\ UNCHANGED engine
  /\ UNCHANGED history

\* Boundary with the timeout reached, not exceeded.
BoundaryAtTimeout(t) == phrase_time # NoTime /\ t - phrase_time >= phrase_timeout

\* The boundary decision of an iteration that finds the queue non-empty.
Boundary(t) == phrase_time # NoTime /\ t - phrase_time > phrase_timeout

Segment(t, iters) ==
  /\ pc = "loop"
  /\ data_queue # <<>>
  /\ drains < iters
  /\ phrase_complete' = Boundary(t)
  /\ phrase_time' = t
  /\ drains' = drains + 1
  /\ last_drain' = t
  /\ prev_drain' = last_drain
  /\ pc' = "join"
  /\ UNCHANGED <<audio_model, data_queue, audio_data, text, transcription,
                 transcript, out, saved, pushed>>
  /\ UNCHANGED <<handed, returned, buffered, commits, fed, nClear, nFeed>>

\* The join done on a phrase buffer that keeps the chunks of earlier drains.
JoinedWithBuffer == IF phrase_complete THEN data_queue ELSE buffered \o data_queue

\* b"".join(data_queue.queue)
Joined == data_queue

Join ==
  /\ pc = "join"
  /\ audio_data' = Joined
  /\ buffered' = IF phrase_complete THEN data_queue ELSE buffered \o data_queue
  /\ pc' = "clear"
  /\ UNCHANGED <<audio_model, phrase_time, phrase_complete, data_queue, text,
                 transcription, transcript, out, saved, pushed>>
  /\ UNCHANGED <<drains, last_drain, prev_drain, handed, returned, commits, fed, nClear,
                 nFeed>>

\* data_queue.queue.clear()
Clear ==
  /\ pc = "clear"
  /\ data_queue' = <<>>
  /\ nClear' = nClear + 1
  /\ pc' = "transcribe"
  /\ UNCHANGED pushed
  /\ UNCHANGED engine
  /\ UNCHANGED <<drains, last_drain, prev_drain, handed, returned, buffered, commits, fed,
                 nFeed>>

\* result = audio_model(audio_np); text = result["text"].strip()
Transcribe(r) ==
  /\ pc = "transcribe"
  /\ audio_model
  /\ text' = Strip(r)
  /\ handed' = Append(handed, audio_data)
  /\ returned' = Append(returned, r)
  /\ pc' = "commit"
  /\ UNCHANGED <<audio_model, phrase_time, phrase_complete, data_queue,
                 audio_data, transcription, transcript, out, saved, pushed>>
  /\ UNCHANGED <<drains, last_drain, prev_drain, buffered, commits, fed, nClear, nFeed>>

\* The call raises: audio_model is None, or the recognizer fails.  Only
\* KeyboardInterrupt is caught, so the exception leaves main().
TranscribeRaises ==
  /\ pc = "transcribe"
  /\ pc' = "crashed"
  /\ handed' = IF audio_model THEN Append(handed, audio_data) ELSE handed
  /\ UNCHANGED <<data_queue, pushed>>
  /\ UNCHANGED engine
  /\ UNCHANGED <<drains, last_drain, prev_drain, returned, buffered, commits, fed, nClear,
                 nFeed>>

\* The commit that overwrites the open line.
CommittedReplace(lines, complete, txt) ==
  IF complete
  THEN Append(lines, txt)
  ELSE [lines EXCEPT ![Len(lines)] = txt]

\* The commit that starts the list again at a boundary.
CommittedRestart(lines, complete, txt) ==
  IF complete
  THEN <<txt>>
  ELSE [lines EXCEPT ![Len(lines)] = @ \o txt]

\* transcription.append(text) / transcription[-1] += text
Committed(lines, complete, txt) ==
  IF complete
  THEN Append(lines, txt)
  ELSE [lines EXCEPT ![Len(lines)] = @ \o txt]

Commit ==
  /\ pc = "commit"
  /\ transcription' = Committed(transcription, phrase_complete, text)
  /\ commits' = Append(commits, <<phrase_complete, text>>)
  /\ pc' = "feed"
  /\ UNCHANGED <<audio_model, phrase_time, phrase_complete, data_queue,
                 audio_data, text, transcript, out, saved, pushed>>
  /\ UNCHANGED <<drains, last_drain, prev_drain, handed, returned, buffered, fed, nClear,
                 nFeed>>

\* The feed that keeps only the new text.
FedAlone(acc, txt) == txt \o <<" ">>

\* transcript += text + " "
Fed(acc, txt) == acc \o txt \o <<" ">>

Feed ==
  /\ pc = "feed"
  /\ transcript' = Fed(transcript, text)
  /\ fed' = fed \o text \o <<" ">>
  /\ nFeed' = nFeed + 1
  /\ pc' = "scan"
  /\ UNCHANGED <<audio_model, phrase_time, phrase_complete, data_queue,
                 audio_data, text, transcription, out, saved, pushed>>
  /\ UNCHANGED <<drains, last_drain, prev_drain, handed, returned, buffered, commits,
                 nClear>>

\* match = ptn.search(transcript.lower())
Matches(acc) == Search(Lower(acc)).found

\* The accumulator kept after a match.
AfterMatchKept(acc) == acc

\* The accumulator after a match: transcript = ""
AfterMatch(acc) == <<>>

Scan ==
  /\ pc = "scan"
  /\ IF Matches(transcript) THEN
       /\ out' = Append(out, USERSAYS(get_cmd(Lower(transcript))))
       /\ transcript' = AfterMatch(transcript)
       /\ fed' = <<>>
     ELSE
       UNCHANGED <<out, transcript, fed>>
  /\ pc' = "loop"
  /\ UNCHANGED <<audio_model, phrase_time, phrase_complete, data_queue,
                 audio_data, text, transcription, saved, pushed>>
  /\ UNCHANGED <<drains, last_drain, prev_drain, handed, returned, buffered, commits,
                 nClear, nFeed>>

\* KeyboardInterrupt raised in the main thread inside the try: break.
Interrupt ==
  /\ InLoop
  /\ pc' = "exit"
  /\ UNCHANGED <<data_queue, pushed>>
  /\ UNCHANGED engine
  /\ UNCHANGED history

\* "\n".join(transcripts) of save_transcripts; the argument is iterated
\* element by element, and the elements of a str are its characters.
JoinLines(items) ==
  LET RECURSIVE J(_)
      J(k) == IF k = 0 THEN <<>>
              ELSE IF k = 1 THEN <<items[1]>>
              ELSE J(k - 1) \o <<"\n", items[k]>>
  IN  J(Len(items))

\* After the loop: print the lines, save_transcripts(transcript).
Finalize ==
  /\ pc = "exit"
  /\ saved' = JoinLines(transcript)
  /\ pc' = "done"
  /\ UNCHANGED <<audio_model, phrase_time, phrase_complete, data_queue,
                 audio_data, text, transcription, transcript, out, pushed>>
  /\ UNCHANGED history

TextTimes == {0, phrase_timeout + 1}

\* Clock readings: dt.datetime.utcnow() at or after the previous reading kept.
Readings(Times) == {t \in Times : t >= phrase_time}

NextOver(Times, Res, chunks, iters) ==
  \/ \E mic \in {"found", "missing", "list"}, loaded \in BOOLEAN : Setup(mic, loaded)
  \/ Push(chunks)
  \/ \E t \in Readings(Times) : Idle(t)
  \/ \E t \in Readings(Times) : Segment(t, iters)
  \/ Join
  \/ Clear
  \/ \E r \in Res : Transcribe(r)
  \/ TranscribeRaises
  \/ Commit
  \/ Feed
  \/ Scan
  \/ Interrupt
  \/ Finalize

\* Every clock reading up to MaxTime, two recognizer outputs.
Next == NextOver(0..MaxTime, ResultsShort, MaxChunks, MaxIter)
\* Two clock readings further apart than phrase_timeout, every output.
NextText == NextOver(TextTimes, Results, MaxChunksText, MaxIterText)

Spec == Init /\ [][Next]_vars
SpecText == Init /\ [][NextText]_vars

\* ---------------------------------------------------------------- helpers
Range(q) == {q[i] : i \in 1..Len(q)}

\* Chunk numbers in strictly increasing order: arrival order, none twice.
Increasing(q) == \A i, j \in 1..Len(q) : i < j => q[i] < q[j]

\* The chunks of every recognizer call so far.
HandedChunks == UNION {Range(handed[k]) : k \in 1..Len(handed)}

\* ------------------------------------------------------------- segmentation
\* C1: an iteration that finds the queue non-empty signals a boundary if and
\* only if an earlier non-empty drain exists and this iteration's clock reading
\* minus that of the most recent earlier non-empty drain is strictly greater
\* than phrase_timeout; the first non-empty drain never signals one.
C1_BoundaryIffGap ==
  pc = "join" =>
    /\ phrase_complete <=>
         (drains >= 2 /\ prev_drain # NoTime /\ last_drain - prev_drain > phrase_timeout)
    /\ (drains = 1 => ~phrase_complete)

\* A boundary is signalled by a drain that comes one second more than the
\* timeout after the drain before it.
C1_Witness ==
  /\ pc = "join"
  /\ phrase_complete
  /\ drains >= 2
  /\ last_drain - prev_drain = phrase_timeout + 1

CommitStep == pc = "commit" /\ pc' = "feed"

\* C3 (as the code has it): a commit with phrase_complete = false extends the
\* open line: the last line becomes its previous content followed by the text
\* just recognized.
C3_OpenLineExtended ==
  [][(CommitStep /\ ~phrase_complete) =>
       Last(transcription') = Last(transcription) \o text]_vars

\* A commit on a phrase that already has text has extended the open line.
C3_Witness ==
  /\ pc = "feed"
  /\ ~phrase_complete
  /\ text # <<>>
  /\ Len(Last(transcription)) > Len(text)

\* C3 as stated: after a commit with phrase_complete = false the last line is
\* equal to the text just recognized.
C3_OpenLineReplaced ==
  [][(CommitStep /\ ~phrase_complete) => Last(transcription') = text]_vars

CommitFlags == [i \in 1..Len(commits) |-> commits[i][1]]
CommitText(i) == commits[i][2]

\* C4 (as the code has it): after four commits with phrase_complete flags
\* [false, false, true, false] from the initial transcript there are exactly 2
\* lines; line 1 is the 1st commit's text followed by the 2nd's, line 2 is the
\* 3rd commit's text followed by the 4th's.
C4_FourCommits ==
  CommitFlags = <<FALSE, FALSE, TRUE, FALSE>> =>
    /\ Len(transcription) = 2
    /\ transcription[1] = CommitText(1) \o CommitText(2)
    /\ transcription[2] = CommitText(3) \o CommitText(4)

\* The four commits are done, with different texts in the 3rd and the 4th.
C4_Witness ==
  /\ CommitFlags = <<FALSE, FALSE, TRUE, FALSE>>
  /\ CommitText(3) # CommitText(4)
  /\ CommitText(1) # CommitText(3)

\* C4 as stated: line 1 equals the 3rd commit's text and line 2 the 4th's.
C4_FourCommitsAsStated ==
  CommitFlags = <<FALSE, FALSE, TRUE, FALSE>> =>
    /\ Len(transcription) = 2
    /\ transcription[1] = CommitText(3)
    /\ transcription[2] = CommitText(4)

\* C5: the transcript is append/extend only.  Only a commit changes it; with
\* phrase_complete = true it appends exactly one line equal to the text, with
\* phrase_complete = false it changes only the last line; no step removes a
\* line or changes a line that is not the last.
C5_AppendExtendOnly ==
  [][/\ Len(transcription') >= Len(transcription)
     /\ \A i \in 1..(Len(transcription) - 1) : transcription'[i] = transcription[i]
     /\ transcription' # transcription => CommitStep
     /\ (CommitStep /\ phrase_complete) => transcription' = Append(transcription, text)
     /\ (CommitStep /\ ~phrase_complete) => Len(transcription') = Len(transcription)
    ]_vars

\* A line was appended after a closed line, and the new last line was extended.
C5_Witness ==
  /\ Len(transcription) = 3
  /\ Len(commits) = 4
  /\ ~phrase_complete
  /\ transcription[1] # <<>>

\* -------------------------------------------------------------------- queue
\* C6: with the capture thread pushing while the loop drains, every pushed
\* chunk is handed to the recognizer exactly once and in arrival order: a chunk
\* is still in the queue, or in the audio joined for the call being made, or
\* in the audio of a call made; the drain discards none.
C6_NoChunkDiscarded ==
  \A c \in 1..pushed :
    \/ c \in Range(data_queue)
    \/ (pc \in {"clear", "transcribe"} /\ c \in Range(audio_data))
    \/ c \in HandedChunks

\* -------------------------------------------------------------- cancellation
\* C10: a stop signal makes the loop exit only after the iteration in progress
\* has completed: at loop exit every drain (queue cleared, phrase_time updated)
\* has its text committed, and every committed text has been fed to the
\* command extractor.
C10_ExitAfterIteration ==
  pc = "exit" =>
    /\ drains = Len(commits)
    /\ nClear = drains
    /\ nFeed = Len(commits)

\* ---------------------------------------------------------------- commands
\* The steps of an iteration that feed the accumulator (line 228) and that
\* scan it (lines 230-234).
FeedStep == pc = "feed" /\ pc' = "scan"
ScanStep == pc = "scan" /\ pc' = "loop"

\* The tokens of the trigger phrase, written out.
WakeTokens == {<<"a", "n", "a">>, <<"a", "n", "n", "a">>,
               <<"h", "a", "n", "a">>, <<"h", "a", "n", "n", "a">>}
ClosingTokens == {<<"t", "h", "a", "n", "k", "s">>,
                  <<"t", "h", "a", "n", "k", " ", "y", "o", "u">>}

HasClosing(s) == \E j \in 1..Len(s), c \in ClosingTokens : StartsWithAt(s, j, c)

\* In s a wake token w at i is followed by a closing token c at j, with no
\* line break between them.
Brackets(s, i, w, j, c) ==
  /\ StartsWithAt(s, i, w)
  /\ StartsWithAt(s, j, c)
  /\ j >= i + Len(w)
  /\ \A k \in (i + Len(w))..(j - 1) : s[k] # "\n"

HasCommand(s) ==
  \E i \in 1..Len(s), w \in WakeTokens :
    /\ StartsWithAt(s, i, w)
    /\ \E j \in 1..Len(s), c \in ClosingTokens : Brackets(s, i, w, j, c)

\* p is the trimmed text between such a wake token and closing token of s.
Delimits(s, p) ==
  \E i \in 1..Len(s), w \in WakeTokens :
    /\ StartsWithAt(s, i, w)
    /\ \E j \in 1..Len(s), c \in ClosingTokens :
         /\ Brackets(s, i, w, j, c)
         /\ p = Strip(SubSeq(s, i + Len(w), j - 1))

\* The command signals printed so far.
Commands == SelectSeq(out, LAMBDA o : o.tag = "[USERSAYS]")

\* C7 (as the code has it): the tokens are looked for in the accumulator with
\* the fed text added.  When its lower-cased content holds a wake token followed
\* later by a closing token, the scan emits the text between a wake token and a
\* closing token of that content with punctuation replaced by spaces, trimmed;
\* from an empty accumulator "hey hanna, please open the door, thanks" emits
\* "please open the door".  When the content holds no closing token the scan
\* emits nothing, and every feed leaves the accumulator strictly longer.
C7_Extraction ==
  [][/\ FeedStep => Len(transcript') > Len(transcript)
     /\ (ScanStep /\ ~HasClosing(Lower(transcript))) =>
          (out' = out /\ transcript' = transcript)
     /\ (ScanStep /\ HasCommand(Lower(transcript))) =>
          /\ Len(out') = Len(out) + 1
          /\ Last(out').tag = "[USERSAYS]"
          /\ Delimits(SubPunct(Lower(transcript)), Last(out').payload)
     /\ (ScanStep /\ transcript = T_example \o <<" ">>) =>
          out' = Append(out, USERSAYS(T_payload))
    ]_vars

\* The example command was emitted from an accumulator that held text before
\* it, and a later feed without a closing token emitted nothing.
C7_Witness ==
  /\ pc = "loop"
  /\ Len(commits) = 3
  /\ CommitText(2) = T_example
  /\ Commands = <<USERSAYS(T_payload)>>
  /\ ~HasClosing(Lower(transcript))
  /\ transcript # <<>>

\* C7 as stated: feeding text that has no closing token emits nothing.
C7_NoClosingInFedText ==
  [][(ScanStep /\ ~HasClosing(Lower(text))) => out' = out]_vars

\* C8: after every successful match the accumulator is empty before the next
\* feed: at any time it holds exactly the text fed since the last command was
\* emitted, and between a scan and the next feed it holds no wake token
\* followed by a closing token, so text recognized before a match is no part
\* of a later match and no command is emitted twice.
C8_OnlyTextSinceLastMatch ==
  /\ transcript = fed
  /\ (InLoop /\ pc # "scan") => ~HasCommand(Lower(transcript))

\* A wake token fed before a match and a closing token fed after it: the
\* second feed emitted no command.
C8_Witness ==
  /\ pc = "loop"
  /\ Len(commits) = 2
  /\ CommitText(1) = T_example
  /\ CommitText(2) = T_thanks
  /\ Commands = <<USERSAYS(T_payload)>>
  /\ transcript = T_thanks \o <<" ">>

\* C9: the accumulator is changed only by feeds.  The feed step makes it its
\* previous value followed by the new text and one separator; the scan step
\* resets it to empty exactly when it emits a command and leaves it alone
\* otherwise; no other step, a phrase boundary included, changes it.
C9_AccumulatorSteps ==
  [][/\ FeedStep => transcript' = transcript \o text \o <<" ">>
     /\ ScanStep => \/ out' # out /\ transcript' = <<>>
                    \/ out' = out /\ transcript' = transcript
     /\ transcript' # transcript => (FeedStep \/ ScanStep)
     /\ Len(transcript') < Len(transcript) => Len(out') = Len(out) + 1
    ]_vars

\* A command whose wake token was recognized in one phrase and whose closing
\* token in the next one was emitted.
C9_Witness ==
  /\ pc = "loop"
  /\ transcription = <<Strip(T_wake), T_thanks>>
  /\ CommitFlags = <<FALSE, TRUE>>
  /\ Commands = <<USERSAYS(<<>>)>>
  /\ transcript = <<>>

\* -------------------------------------------------------------- session end
\* The lines joined by line breaks, as one text.
JoinText(lines) ==
  LET RECURSIVE J(_)
      J(k) == IF k = 0 THEN <<>>
              ELSE IF k = 1 THEN lines[1]
              ELSE J(k - 1) \o <<"\n">> \o lines[k]
  IN  J(Len(lines))

\* C11: at session end after cancellation the content persisted to the
\* transcript file is the final transcript: all committed transcript lines, in
\* order, joined by line breaks, whatever the command accumulator holds.
\* Stated for the sessions cancelled between two iterations.
C11_FileIsTranscript ==
  (pc = "done" /\ drains = Len(commits) /\ nFeed = drains)
    => saved = JoinText(transcription)

\* C12: when the transcription call raises, the failure is propagated, the
\* loop terminates without retrying, and the partial transcript committed so
\* far is still persisted before the session ends.  Stated for a recognizer
\* that was loaded, returned text at least once, and then raised.
C12_FileAfterRecognizerFailure ==
  (pc = "crashed" /\ audio_model /\ Len(commits) > 0) => saved = JoinText(transcription)

\* The READY lines printed so far.
Readies == SelectSeq(out, LAMBDA o : o.tag = "[READY]")

\* C13: a setup failure aborts before the loop is entered: when load_model
\* returned None (or no input device was found) the readiness signal is never
\* emitted, no chunk is ever drained and no transcription is attempted.
C13_SetupFailureAborts ==
  (pc # "setup" /\ ~audio_model) =>
    /\ Readies = <<>>
    /\ drains = 0
    /\ nClear = 0
    /\ pc \notin {"transcribe"}

\* C14: the readiness signal is emitted exactly once, after setup and before
\* the first loop iteration, and every command-detected signal is emitted after
\* it: nothing is printed during setup, and once the loop is entered the first
\* line printed is READY and no other line is.
C14_ReadyOnceAndFirst ==
  /\ pc = "setup" => out = <<>>
  /\ Len(Readies) <= 1
  /\ (InLoop \/ pc \in {"exit", "done"}) => (Len(Readies) = 1 /\ out[1] = READY)
  /\ \A k \in 1..Len(out) : out[k].tag = "[USERSAYS]" => (k > 1 /\ out[1] = READY)
  /\ (drains > 0 \/ pushed > 0) => Len(Readies) = 1

\* A command was emitted in a run, after the READY line.
C14_Witness ==
  /\ Len(out) = 3
  /\ out[1] = READY
  /\ out[2].tag = "[USERSAYS]"
  /\ out[3].tag = "[USERSAYS]"

\* --------------------------------------------------------------- end to end
\* The clock readings of the non-empty drains of the scenario, in order.
Schedule == <<0, 2, 4, 10>>

\* The reading of the next non-empty drain of the scenario.
ScheduleTimes == IF drains < Len(Schedule) THEN {Schedule[drains + 1]} ELSE {}

\* The runs whose non-empty drains read the clock as in Schedule.
NextE2E ==
  \/ \E mic \in {"found", "missing", "list"}, loaded \in BOOLEAN : Setup(mic, loaded)
  \/ Push(MaxChunks)
  \/ \E t \in Readings(0..MaxTime) : Idle(t)
  \/ \E t \in ScheduleTimes : Segment(t, Len(Schedule))
  \/ Join
  \/ Clear
  \/ \E r \in ResultsShort : Transcribe(r)
  \/ TranscribeRaises
  \/ Commit
  \/ Feed
  \/ Scan
  \/ Interrupt
  \/ Finalize

SpecE2E == Init /\ [][NextE2E]_vars

\* The texts of the commits i..j, one after the other.
CommitTexts(i, j) ==
  LET RECURSIVE C(_)
      C(k) == IF k < i THEN <<>> ELSE C(k - 1) \o CommitText(k)
  IN  C(j)

WakeAt(s) == {i \in 1..Len(s) : \E w \in WakeTokens : StartsWithAt(s, i, w)}
ClosingAt(s) == {j \in 1..Len(s) : \E c \in ClosingTokens : StartsWithAt(s, j, c)}
WakeEnd(s, i) == i + Len(CHOOSE w \in WakeTokens : StartsWithAt(s, i, w))

\* s holds two commands one after the other: a wake token and a closing token
\* after it, then another wake token and a closing token after that.
TwoPairs(s) ==
  \E i \in WakeAt(s), j \in ClosingAt(s), k \in WakeAt(s), l \in ClosingAt(s) :
    /\ WakeEnd(s, i) <= j
    /\ j < k
    /\ WakeEnd(s, k) <= l

\* The trimmed span of s from the end of its leftmost wake token to the first
\* closing token that follows it.
FirstSpan(s) ==
  LET i == Min(WakeAt(s))
      e == WakeEnd(s, i)
      j == Min({x \in ClosingAt(s) : x >= e})
  IN  Strip(SubSeq(s, e, j - 1))

\* C16: when the accumulator holds more than one wake-token/closing-token pair
\* at a feed, exactly one command is emitted for that feed; its payload is the
\* span from the leftmost wake token to the first closing token that follows
\* it; no second command is emitted for the remaining pairs and the whole
\* accumulator, the text after the matched closing token included, is cleared.
\* The tokens are located in the lower-cased accumulator with its punctuation
\* replaced by spaces, the string get_cmd searches.
C16_FirstMatchOnly ==
  [][(ScanStep /\ TwoPairs(Lower(transcript))) =>
       /\ out' = Append(out, USERSAYS(FirstSpan(SubPunct(Lower(transcript)))))
       /\ transcript' = <<>>
    ]_vars

C16_Witness ==
  /\ pc = "loop"
  /\ Len(commits) = 1
  /\ CommitText(1) = T_double
  /\ Commands = <<USERSAYS(<<"a">>)>>
  /\ transcript = <<>>

\* --------------------------------------------------------------- detection
\* The accumulator as get_cmd normalizes it: lower-cased, punctuation replaced
\* by spaces, trimmed.
Normalized(s) == Strip(SubPunct(Lower(s)))

\* C17: a command is detected on a feed if and only if the normalized scan
\* string (the accumulator with the punctuation . , ; : ! ? taken out and
\* lower-cased) contains the trigger pattern, so that punctuation between
\* "thank" and "you" does not prevent detection.
C17_DetectionOnNormalized ==
  [][ScanStep => ((out' # out) <=> Search(Normalized(transcript)).found)]_vars

\* ------------------------------------------------------------ idle iteration
LoopStep == pc = "loop" /\ pc' = "join"

\* C18: an iteration that finds the queue empty changes no engine state: the
\* phrase time, the transcript lines and the accumulator are unchanged, the
\* recognizer is not called and nothing is printed; every non-empty drain sets
\* the phrase time to the iteration's clock reading, boundary or not.
C18_IdleFrame ==
  [][/\ (pc = "loop" /\ data_queue = <<>>) =>
          /\ UNCHANGED <<phrase_time, phrase_complete, transcription, transcript, out>>
          /\ UNCHANGED <<audio_data, text, returned, handed, drains>>
          /\ pc' \in {"loop", "exit"}
     /\ LoopStep =>
          /\ data_queue # <<>>
          /\ drains' = drains + 1
          /\ phrase_time' = last_drain'
          /\ phrase_time' >= 0
    ]_vars

C18_Witness ==
  /\ pc = "loop"
  /\ data_queue = <<>>
  /\ Len(commits) = 3
  /\ CommitFlags = <<FALSE, TRUE, FALSE>>
  /\ phrase_time = last_drain
  /\ last_drain > prev_drain

\* ------------------------------------------------------------- conservation
Concat(seqs) ==
  LET RECURSIVE C(_)
      C(k) == IF k = 0 THEN <<>> ELSE C(k - 1) \o seqs[k]
  IN  C(Len(seqs))

Boundaries == Cardinality({k \in 1..Len(commits) : CommitFlags[k]})

\* C19 (as the code has it): between iterations, the transcript lines put one
\* after the other equal the texts the recognizer returned, each trimmed of
\* its leading and trailing whitespace, put one after the other in call
\* order; the number of lines is 1 plus the number of boundaries signaled.
C19_LinesAreTrimmedTexts ==
  pc = "loop" =>
    /\ Len(returned) = Len(commits)
    /\ Concat(transcription) = Concat([k \in 1..Len(returned) |-> Strip(returned[k])])
    /\ Len(transcription) = 1 + Boundaries

C19_Witness ==
  /\ pc = "loop"
  /\ returned = <<T_wake, T_thanks, T_wake>>
  /\ CommitFlags = <<FALSE, TRUE, FALSE>>
  /\ transcription = <<Strip(T_wake), T_thanks \o Strip(T_wake)>>

\* C19 as stated: the lines put one after the other equal the recognizer's
\* texts put one after the other.
C19_LinesAreTexts ==
  pc = "loop" => Concat(transcription) = Concat(returned)

\* ------------------------------------------------------------------ payload
\* C20: every command printed carries a string that has no leading or
\* trailing whitespace and none of the characters . , ; : ! ?; whenever the
\* search on the lower-cased accumulator succeeds, get_cmd's search on the
\* punctuation-replaced text succeeds too, so None is never printed.
C20_PayloadClean ==
  /\ \A k \in 1..Len(Commands) :
       /\ Commands[k].payload # None
       /\ Strip(Commands[k].payload) = Commands[k].payload
       /\ \A i \in 1..Len(Commands[k].payload) : Commands[k].payload[i] \notin Punctuation
  /\ (pc = "scan" /\ Matches(transcript)) =>
       /\ Search(Normalized(transcript)).found
       /\ get_cmd(Lower(transcript)) # None

C20_Witness ==
  /\ pc = "scan"
  /\ Matches(transcript)
  /\ \E i \in 1..Len(transcript) : transcript[i] \in Punctuation
  /\ Len(Commands) = 1
  /\ Commands[1].payload # <<>>

====
